---- MODULE Spec2Model ----
(***************************************************************************)
(* Isolation forest (src/isolation_forest.py): Node, IsolationTree and     *)
(* IsolationForest.                                                        *)
(*                                                                         *)
(* Conventions of the model                                                *)
(*  - Row and column indices are 0-based as in the Python code; the TLA+   *)
(*    sequences holding them are 1-based, hence the "+ 1" on every access. *)
(*  - Python's None is the integer None (-1); every quantity that may be   *)
(*    None is otherwise >= 0.  self.trees is a list or None: the list is   *)
(*    trees and "is not None" is trees_assigned.                           *)
(*  - Nodes live in a per-tree arena (a sequence); a node reference is its *)
(*    position in the arena, the root is node 1.                           *)
(*  - random() draws r/SplitGrid with r in 0..SplitGrid-1, i.e. a value of *)
(*    [0, 1).  A split point is stored multiplied by SplitGrid so that it  *)
(*    stays an integer; a value v is compared as v * SplitGrid.            *)
(*  - Path lengths and adjustments are fixed-point numbers in units of     *)
(*    1/Micro.                                                             *)
(*  - A score 2 ** -(score / adjustment) is kept as the exponent's         *)
(*    numerator and denominator: [num, den] stands for 2^-(num/den).       *)
(***************************************************************************)
EXTENDS Integers, Sequences, FiniteSets, TLC

\* ---- bounds of the model ------------------------------------------------
MaxRows == 3
MaxCols == 2
MaxCells == 4
MaxVal == 2
MaxSamples == 3
MaxDepthArg == 1
MaxTrees == 2
SplitGrid == 2

\* ---- fixed-point unit and Python's None ---------------------------------
Micro == 1000000
None == -1

VARIABLES
  pc,              \* position of the caller: "new", "tree", "build", "fitted", "failed"
  err,             \* exception raised by fit, or "none"
  X,               \* fit's dataset
  n_samples,       \* fit's argument n_samples
  max_depth,       \* fit's argument max_depth
  n_trees,         \* fit's argument n_trees
  adjustment,      \* IsolationForest.adjustment
  trees,           \* IsolationForest.trees (the list)
  trees_assigned,  \* IsolationForest.trees is not None
  built,           \* trees completed so far by the list comprehension of fit
  tree,            \* the IsolationTree under construction
  que,             \* _build_tree's local que
  depth,           \* _build_tree's local depth (None while unbound)
  Q,               \* predict's dataset
  scores,          \* predict's return value
  predict_err,     \* exception raised by predict, or "none"
  predicted        \* predict has been called

vars == <<pc, err, X, n_samples, max_depth, n_trees, adjustment, trees,
          trees_assigned, built, tree, que, depth, Q, scores, predict_err,
          predicted>>

forestVars == <<adjustment, trees, trees_assigned>>
fitArgs == <<X, n_samples, max_depth, n_trees>>
buildVars == <<built, tree, que, depth>>
predictVars == <<Q, scores, predict_err, predicted>>

\* ---- inputs ---------------------------------------------------------------
Values == 0..MaxVal

Rectangular(D) == \A i \in 1..Len(D) : Len(D[i]) = Len(D[1])

\* the rectangular datasets of at most MaxCells cells, the empty list included
RectDatasets ==
  UNION {[1..n -> [1..m -> Values]] :
           <<n, m>> \in {p \in (0..MaxRows) \X (1..MaxCols) :
                           p[1] * p[2] <= MaxCells}}

\* a ragged dataset: row i of a rectangular dataset loses its last column
DropLast(D, i) == [D EXCEPT ![i] = SubSeq(@, 1, Len(@) - 1)]

RaggedDatasets ==
  {DropLast(D, i) : <<D, i>> \in
     {p \in RectDatasets \X (1..MaxRows) :
        Len(p[1]) >= 2 /\ p[2] <= Len(p[1]) /\ Len(p[1][1]) >= 2}}

Datasets == RectDatasets \cup RaggedDatasets

\* ---- Node -----------------------------------------------------------------
Node(size) ==
  [size |-> size, split_feature |-> None, split_point |-> None,
   left |-> None, right |-> None]

\* ---- helpers --------------------------------------------------------------
Range(s) == {s[k] : k \in 1..Len(s)}

Min(S) == CHOOSE v \in S : \A w \in S : v <= w
Max(S) == CHOOSE v \in S : \A w \in S : v >= w

Injective(s) == \A a, b \in 1..Len(s) : a # b => s[a] # s[b]

\* a sample drawn with replacement, as random.choices would draw it
SampleWithReplacement(n, k) == [1..k -> 0..(n - 1)]

\* random.sample(range(n), k): k distinct indices in any order
Sample(n, k) == {s \in [1..k -> 0..(n - 1)] : Injective(s)}

\* _get_split without unique.remove(min(unique))
GetSplitKeepMin(D, idx, split_feature, r) ==
  LET unique == {D[idx[k] + 1][split_feature + 1] : k \in 1..Len(idx)}
  IN IF Cardinality(unique) = 1
       THEN None
       ELSE r * (Max(unique) - Min(unique)) + SplitGrid * Min(unique)

\* ---- IsolationTree._get_split ---------------------------------------------
\* r is the draw of random(), in units of 1/SplitGrid; the result is the split
\* point multiplied by SplitGrid, or None when the column cannot be split.
GetSplit(D, idx, split_feature, r) ==
  LET unique == {D[idx[k] + 1][split_feature + 1] : k \in 1..Len(idx)}
  IN IF Cardinality(unique) = 1
       THEN None
       ELSE LET rest == unique \ {Min(unique)}
                x_min == Min(rest)
                x_max == Max(rest)
            IN r * (x_max - x_min) + SplitGrid * x_min

\* xi < nd.split_point, the test of both _build_tree and _predict
Less(xi, split_point) == xi * SplitGrid < split_point

\* the partition loop of _build_tree: idx.pop() takes the indices from the
\* end of the list, each is appended to idx_left or to idx_right
RECURSIVE IdxLeft(_, _, _, _)
IdxLeft(D, idx, split_feature, split_point) ==
  IF idx = <<>> THEN <<>>
  ELSE LET i == idx[Len(idx)]
           rest == SubSeq(idx, 1, Len(idx) - 1)
       IN IF Less(D[i + 1][split_feature + 1], split_point)
            THEN <<i>> \o IdxLeft(D, rest, split_feature, split_point)
            ELSE IdxLeft(D, rest, split_feature, split_point)

\* a partition that sends right only the rows strictly above the split point
RECURSIVE IdxRightStrict(_, _, _, _)
IdxRightStrict(D, idx, split_feature, split_point) ==
  IF idx = <<>> THEN <<>>
  ELSE LET i == idx[Len(idx)]
           rest == SubSeq(idx, 1, Len(idx) - 1)
       IN IF D[i + 1][split_feature + 1] * SplitGrid > split_point
            THEN <<i>> \o IdxRightStrict(D, rest, split_feature, split_point)
            ELSE IdxRightStrict(D, rest, split_feature, split_point)

RECURSIVE IdxRight(_, _, _, _)
IdxRight(D, idx, split_feature, split_point) ==
  IF idx = <<>> THEN <<>>
  ELSE LET i == idx[Len(idx)]
           rest == SubSeq(idx, 1, Len(idx) - 1)
       IN IF Less(D[i + 1][split_feature + 1], split_point)
            THEN IdxRight(D, rest, split_feature, split_point)
            ELSE <<i>> \o IdxRight(D, rest, split_feature, split_point)

\* X[i][split_feature] raises IndexError for some i of idx
ShortRow(D, idx, split_feature) ==
  \E k \in 1..Len(idx) : Len(D[idx[k] + 1]) <= split_feature

\* ---- IsolationForest._get_adjustment --------------------------------------
\* math.log on the arguments the bounds allow, in units of 1/Micro
LnMicro(i) ==
  CASE i = 1 -> 0
    [] i = 2 -> 693147
    [] i = 3 -> 1098612
    [] i = 4 -> 1386294
    [] i = 5 -> 1609438
    [] i = 6 -> 1791759
    [] i = 7 -> 1945910
    [] i = 8 -> 2079442

EulerMicro == 577216

GetAdjustment(node_size) ==
  IF node_size > 2
    THEN LET i == node_size - 1
         IN 2 * (LnMicro(i) + EulerMicro) - (2 * i * Micro) \div node_size
    ELSE IF node_size = 2 THEN Micro ELSE 0

\* a descent that goes left on row[nd.split_feature] <= nd.split_point
RECURSIVE DescendLeftOnTie(_, _, _, _)
DescendLeftOnTie(nodes, row, nd, d) ==
  IF nodes[nd].left # None /\ nodes[nd].right # None
    THEN IF Len(row) <= nodes[nd].split_feature
           THEN [err |-> "IndexError", depth |-> d, nd |-> nd]
           ELSE IF row[nodes[nd].split_feature + 1] * SplitGrid
                     <= nodes[nd].split_point
                  THEN DescendLeftOnTie(nodes, row, nodes[nd].left, d + 1)
                  ELSE DescendLeftOnTie(nodes, row, nodes[nd].right, d + 1)
    ELSE [err |-> "none", depth |-> d, nd |-> nd]

\* ---- IsolationTree._predict -----------------------------------------------
\* the descent from node nd at depth d; err is set when row[nd.split_feature]
\* is out of range
RECURSIVE Descend(_, _, _, _)
Descend(nodes, row, nd, d) ==
  IF nodes[nd].left # None /\ nodes[nd].right # None
    THEN IF Len(row) <= nodes[nd].split_feature
           THEN [err |-> "IndexError", depth |-> d, nd |-> nd]
           ELSE IF Less(row[nodes[nd].split_feature + 1], nodes[nd].split_point)
                  THEN Descend(nodes, row, nodes[nd].left, d + 1)
                  ELSE Descend(nodes, row, nodes[nd].right, d + 1)
    ELSE [err |-> "none", depth |-> d, nd |-> nd]

TreePredict(t, row) ==
  LET w == Descend(t.nodes, row, t.root, 0)
  IN [err |-> w.err, depth |-> w.depth, size |-> t.nodes[w.nd].size]

\* ---- IsolationForest._predict ---------------------------------------------
RECURSIVE SumScore(_, _)
SumScore(ts, row) ==
  IF ts = <<>> THEN 0
  ELSE LET p == TreePredict(Head(ts), row)
       IN p.depth * Micro + GetAdjustment(p.size) + SumScore(Tail(ts), row)

\* the exception _predict raises on row, or "none"
RowError(ts, adj, row) ==
  IF \E k \in 1..Len(ts) : TreePredict(ts[k], row).err # "none"
    THEN "IndexError"
    ELSE IF adj = 0 THEN "ZeroDivisionError" ELSE "none"

\* 2 ** -(score / self.adjustment) with score = sum / n_trees
ForestPredictRow(ts, adj, row) ==
  [num |-> SumScore(ts, row), den |-> Len(ts) * adj]

\* ---- IsolationForest.predict ----------------------------------------------
PredictError(ts, adj, D) ==
  IF \A k \in 1..Len(D) : RowError(ts, adj, D[k]) = "none"
    THEN "none"
    ELSE LET k == Min({j \in 1..Len(D) : RowError(ts, adj, D[j]) # "none"})
         IN RowError(ts, adj, D[k])

PredictScores(ts, adj, D) ==
  IF PredictError(ts, adj, D) = "none"
    THEN [k \in 1..Len(D) |-> ForestPredictRow(ts, adj, D[k])]
    ELSE <<>>

\* ---- state after IsolationForest() ----------------------------------------
NoTree ==
  [root |-> None, nodes |-> <<>>, height |-> None,
   ndepth |-> <<>>, leafIdx |-> <<>>, leaves |-> {}, subsample |-> <<>>]

Init ==
  /\ pc = "new"
  /\ err = "none"
  /\ X = <<>>
  /\ n_samples = None
  /\ max_depth = None
  /\ n_trees = None
  /\ adjustment = None
  /\ trees = <<>>
  /\ trees_assigned = FALSE
  /\ built = <<>>
  /\ tree = NoTree
  /\ que = <<>>
  /\ depth = None
  /\ Q = <<>>
  /\ scores = <<>>
  /\ predict_err = "none"
  /\ predicted = FALSE

\* ---- IsolationForest.fit --------------------------------------------------
\* line 170: the adjustment is computed from the argument n_samples, then the
\* list comprehension starts
FitWith(D, ns, md, nt) ==
  /\ pc = "new"
  /\ X' = D
  /\ n_samples' = ns
  /\ max_depth' = md
  /\ n_trees' = nt
  /\ adjustment' = GetAdjustment(ns)
  /\ built' = <<>>
  /\ pc' = "tree"
  /\ UNCHANGED <<err, trees, trees_assigned, tree, que, depth>>
  /\ UNCHANGED predictVars

Fit ==
  /\ pc = "new"
  /\ \E D \in Datasets, ns \in 1..MaxSamples, md \in 0..MaxDepthArg,
     nt \in 1..MaxTrees : FitWith(D, ns, md, nt)

\* IsolationTree.__init__ and the head of _build_tree, up to the first test of
\* the while loop.  The fields ndepth, leafIdx, leaves and subsample of the
\* tree are history: the depth each node was queued at, the index list each
\* leaf was left with, the nodes that are final leaves, and the drawn sample.
ClampSamples(n, ns) == IF ns > n THEN n ELSE ns

NewTree(s, idx) ==
  [root |-> 1, nodes |-> <<Node(s)>>, height |-> 0,
   ndepth |-> <<0>>, leafIdx |-> <<{}>>, leaves |-> {}, subsample |-> idx]

TreeInit ==
  /\ pc = "tree"
  /\ Len(built) < n_trees
  /\ LET n == Len(X)
         s == ClampSamples(n, n_samples)
     IN IF n = 0
          THEN \* len(X[0]) raises IndexError
               /\ pc' = "failed"
               /\ err' = "IndexError"
               /\ tree' = NewTree(s, <<>>)
               /\ UNCHANGED <<que, depth>>
          ELSE \E idx \in Sample(n, s) :
               /\ pc' = "build"
               /\ tree' = NewTree(s, idx)
               /\ que' = <<[depth |-> 0, nd |-> 1, idx |-> idx]>>
               /\ depth' = None
               /\ err' = err
  /\ UNCHANGED <<built, adjustment, trees, trees_assigned>>
  /\ UNCHANGED fitArgs
  /\ UNCHANGED predictVars

\* the result of splitting node nd on feature f at split point sp
SplitNode(t, nd, f, sp, idx_left, idx_right, d) ==
  LET k == Len(t.nodes)
  IN [t EXCEPT
        !.nodes = Append(Append(
                    [@ EXCEPT ![nd].split_feature = f,
                              ![nd].split_point = sp,
                              ![nd].left = k + 1,
                              ![nd].right = k + 2],
                    Node(Len(idx_left))), Node(Len(idx_right))),
        !.ndepth = Append(Append(@, d + 1), d + 1),
        !.leafIdx = Append(Append(@, {}), {})]

\* the node nd cannot be split: it stays a leaf holding idx
LeafNode(t, nd, f, idx) ==
  [t EXCEPT !.nodes[nd].split_feature = f,
            !.leafIdx[nd] = Range(idx),
            !.leaves = @ \cup {nd}]

\* the test of the while loop
LoopCond(q, md) == q # <<>> /\ q[1].depth <= md

\* one iteration of the while loop of _build_tree
BuildStep ==
  /\ pc = "build"
  /\ LoopCond(que, max_depth)
  /\ \E f \in 0..(Len(X[1]) - 1), r \in 0..(SplitGrid - 1) :
       LET e == que[1]
       IN IF ShortRow(X, e.idx, f)
            THEN \* IndexError inside _get_split
                 /\ pc' = "failed"
                 /\ err' = "IndexError"
                 /\ tree' = [tree EXCEPT !.nodes[e.nd].split_feature = f]
                 /\ que' = Tail(que)
                 /\ depth' = e.depth
            ELSE LET sp == GetSplit(X, e.idx, f, r)
                 IN IF sp = None
                      THEN /\ tree' = LeafNode(tree, e.nd, f, e.idx)
                           /\ que' = Tail(que)
                           /\ depth' = e.depth
                           /\ UNCHANGED <<pc, err>>
                      ELSE LET il == IdxLeft(X, e.idx, f, sp)
                               ir == IdxRight(X, e.idx, f, sp)
                               k == Len(tree.nodes)
                           IN /\ tree' = SplitNode(tree, e.nd, f, sp, il, ir,
                                                   e.depth)
                              /\ que' = Tail(que) \o
                                   <<[depth |-> e.depth + 1, nd |-> k + 1,
                                      idx |-> il],
                                     [depth |-> e.depth + 1, nd |-> k + 2,
                                      idx |-> ir]>>
                              /\ depth' = e.depth
                              /\ UNCHANGED <<pc, err>>
  /\ UNCHANGED <<built, adjustment, trees, trees_assigned>>
  /\ UNCHANGED fitArgs
  /\ UNCHANGED predictVars

\* the nodes still queued when the loop ends are leaves
RECURSIVE CloseQueue(_, _)
CloseQueue(t, q) ==
  IF q = <<>> THEN t
  ELSE CloseQueue([t EXCEPT !.leafIdx[Head(q).nd] = Range(Head(q).idx),
                            !.leaves = @ \cup {Head(q).nd}], Tail(q))

\* the while loop ends: line 120, and the tree joins the list being built
BuildDone ==
  /\ pc = "build"
  /\ ~LoopCond(que, max_depth)
  /\ built' = Append(built, [CloseQueue(tree, que) EXCEPT !.height = depth])
  /\ tree' = NoTree
  /\ que' = <<>>
  /\ depth' = None
  /\ pc' = "tree"
  /\ UNCHANGED <<err, adjustment, trees, trees_assigned>>
  /\ UNCHANGED fitArgs
  /\ UNCHANGED predictVars

\* line 171: the finished list is assigned to self.trees
FitDone ==
  /\ pc = "tree"
  /\ Len(built) = n_trees
  /\ trees' = built
  /\ trees_assigned' = TRUE
  /\ pc' = "fitted"
  /\ UNCHANGED <<err, adjustment, built, tree, que, depth>>
  /\ UNCHANGED fitArgs
  /\ UNCHANGED predictVars

\* ---- IsolationForest.predict ----------------------------------------------
\* the datasets predict is called with: the training set, or a single row of
\* the training set's width holding one value in every column (as the
\* outliers [10]*5 of the demonstration)
Queries == {X} \cup {<<[c \in 1..Len(X[1]) |-> v]>> : v \in Values}

\* a predict whose descent walks self.root itself instead of a local nd: each
\* tree's root is left at the leaf the last row of D reached
PredictMovingRoot(D) ==
  /\ pc = "fitted"
  /\ Q' = D
  /\ predict_err' = PredictError(trees, adjustment, D)
  /\ scores' = PredictScores(trees, adjustment, D)
  /\ predicted' = TRUE
  /\ trees' = [k \in 1..Len(trees) |->
                [trees[k] EXCEPT !.root =
                   Descend(trees[k].nodes, D[Len(D)], trees[k].root, 0).nd]]
  /\ UNCHANGED <<pc, err, adjustment, trees_assigned>>
  /\ UNCHANGED fitArgs
  /\ UNCHANGED buildVars

PredictWith(D) ==
  /\ pc = "fitted"
  /\ Q' = D
  /\ predict_err' = PredictError(trees, adjustment, D)
  /\ scores' = PredictScores(trees, adjustment, D)
  /\ predicted' = TRUE
  /\ UNCHANGED <<pc, err>>
  /\ UNCHANGED forestVars
  /\ UNCHANGED fitArgs
  /\ UNCHANGED buildVars

Predict == pc = "fitted" /\ \E D \in Queries : PredictWith(D)

Next == Fit \/ TreeInit \/ BuildStep \/ BuildDone \/ FitDone \/ Predict

Spec == Init /\ [][Next]_vars

\* ---- vocabulary of the properties ------------------------------------------
\* the trees whose construction has finished
Finished == Range(built) \cup Range(trees)

\* the tree under construction, if any, and the finished ones
Present == IF pc = "build" THEN Finished \cup {tree} ELSE Finished

NodesOf(t) == 1..Len(t.nodes)

IsLeaf(t, nd) == t.nodes[nd].left = None /\ t.nodes[nd].right = None

AllIdentical(D) == D # <<>> /\ \A i \in 1..Len(D) : D[i] = D[1]

ValidDataset(D) == D # <<>> /\ Rectangular(D)

RECURSIVE SumOver(_, _)
SumOver(f, S) ==
  IF S = {} THEN 0
  ELSE LET x == CHOOSE y \in S : TRUE IN f[x] + SumOver(f, S \ {x})

\* a score 2^-(num/den) lies in (0, 1] iff the exponent is defined and >= 0
InUnitInterval(sc) == sc.den > 0 /\ sc.num >= 0

\* a score 2^-(num/den) equals 0.5 iff the exponent is exactly 1
IsHalf(sc) == sc.den > 0 /\ sc.num = sc.den

\* ---- C1 ---------------------------------------------------------------------
\* C1: after fit on a non-empty rectangular dataset (n_samples >= 1,
\* max_depth >= 0, n_trees >= 1), predict raises no error and every score it
\* returns lies in (0, 1]: the summed adjusted path length is >= 0 and the
\* adjustment it is divided by is > 0.
C1_ScoresInUnitInterval ==
  (pc = "fitted" /\ predicted /\ ValidDataset(X)) =>
     /\ predict_err = "none"
     /\ Len(scores) = Len(Q)
     /\ \A k \in 1..Len(scores) : InUnitInterval(scores[k])

\* ---- C2 ---------------------------------------------------------------------
\* C2: once fit has returned or raised on an empty or ragged dataset, it has
\* raised InvalidInputError and neither adjustment nor trees is assigned.
C2_InvalidInputRejected ==
  (pc \in {"fitted", "failed"} /\ ~ValidDataset(X)) =>
     /\ pc = "failed"
     /\ err = "InvalidInputError"
     /\ adjustment = None
     /\ ~trees_assigned

\* ---- C3 ---------------------------------------------------------------------
\* C3: after fit, the adjustment is the expected path length of the subsample
\* size every tree was built with, the size recorded on its root.
C3_AdjustmentFromUsedSize ==
  pc = "fitted" =>
     \A k \in 1..Len(trees) :
        adjustment = GetAdjustment(trees[k].nodes[trees[k].root].size)

\* ---- C4 ---------------------------------------------------------------------
\* C4: on a dataset of identical rows every root stays a leaf, every tree
\* query returns depth 0 with the root's size, and predict on the dataset
\* returns 0.5 for every row without error.
C4_IdenticalRowsScoreHalf ==
  (pc = "fitted" /\ AllIdentical(X)) =>
     /\ \A k \in 1..Len(trees) :
          /\ IsLeaf(trees[k], trees[k].root)
          /\ \A i \in 1..Len(X) :
               TreePredict(trees[k], X[i]) =
                 [err |-> "none", depth |-> 0,
                  size |-> trees[k].nodes[trees[k].root].size]
     /\ (predicted /\ Q = X) =>
          /\ predict_err = "none"
          /\ Len(scores) = Len(X)
          /\ \A i \in 1..Len(scores) : IsHalf(scores[i])

\* ---- C5 ---------------------------------------------------------------------
\* C5: when n_samples exceeds the row count n of a (non-empty, rectangular)
\* dataset, fit raises no error and every tree is built over all n indices:
\* the root has size n and the list enqueued for the root holds each of
\* 0..n-1 exactly once.
C5_ClampSeesAllRows ==
  (pc # "new" /\ ValidDataset(X) /\ n_samples > Len(X)) =>
     /\ pc # "failed"
     /\ err = "none"
     /\ \A t \in Present :
          /\ t.nodes[t.root].size = Len(X)
          /\ Len(t.subsample) = Len(X)
          /\ Range(t.subsample) = 0..(Len(X) - 1)
          /\ Injective(t.subsample)
     /\ (pc = "build" /\ depth = None) => que[1].idx = tree.subsample

C5_Witness ==
  /\ pc = "fitted"
  /\ ValidDataset(X)
  /\ Len(X) = 2
  /\ n_samples = 3
  /\ Len(trees) = 2
  /\ \A k \in 1..2 : Range(trees[k].subsample) = {0, 1}

\* ---- C6 ---------------------------------------------------------------------
\* C6: predict is read-only.  From the moment the forest is fitted, no step
\* changes the number of trees, any node, any height, the adjustment or the
\* dataset given to fit, and the dataset given to predict is the one predict
\* leaves behind.
C6_PredictReadOnly ==
  [][pc = "fitted" =>
       /\ trees' = trees
       /\ trees_assigned' = trees_assigned
       /\ adjustment' = adjustment
       /\ X' = X
       /\ Q' \in Queries]_vars

C6_Witness ==
  /\ pc = "fitted"
  /\ predicted
  /\ predict_err = "none"
  /\ Len(Q) = 3
  /\ Len(trees) = 2
  /\ \E k \in 1..2 : ~IsLeaf(trees[k], trees[k].root)

\* ---- C7 ---------------------------------------------------------------------
\* C7: max_depth is the maximum height of a tree: on a non-empty rectangular
\* dataset no node lies deeper than max_depth and no tree query returns a
\* depth above max_depth.
C7_DepthWithinMaxDepth ==
  ValidDataset(X) => \A t \in Present :
     /\ \A nd \in NodesOf(t) : t.ndepth[nd] <= max_depth
     /\ \A i \in 1..Len(X) :
          LET p == TreePredict(t, X[i])
          IN p.err = "none" => p.depth <= max_depth

\* ---- C8 ---------------------------------------------------------------------
\* C8: whenever an iteration of the build loop obtains a split point (the
\* chosen column has two or more distinct values over the index list, and
\* only then), the split point is strictly above the column's minimum and not
\* above its maximum over that list, both halves of the partition are
\* non-empty and both children have size >= 1.
C8_SplitIsNonTrivial ==
  [][(pc = "build" /\ pc' = "build" /\ LoopCond(que, max_depth)) =>
       LET e == que[1]
           n == tree'.nodes[e.nd]
           col == {X[e.idx[k] + 1][n.split_feature + 1] : k \in 1..Len(e.idx)}
       IN /\ (n.split_point # None) <=> (Cardinality(col) >= 2)
          /\ (n.split_point # None) =>
               /\ n.split_point > SplitGrid * Min(col)
               /\ n.split_point <= SplitGrid * Max(col)
               /\ Len(que') = Len(que) + 1
               /\ que'[Len(que') - 1].nd = n.left
               /\ que'[Len(que')].nd = n.right
               /\ que'[Len(que') - 1].idx # <<>>
               /\ que'[Len(que')].idx # <<>>
               /\ tree'.nodes[n.left].size >= 1
               /\ tree'.nodes[n.right].size >= 1]_vars

\* a split point drawn strictly inside the interval of the remaining values
C8_Witness ==
  /\ pc = "build"
  /\ \E nd \in NodesOf(tree) :
       /\ tree.nodes[nd].split_point # None
       /\ tree.nodes[nd].split_point % SplitGrid # 0
       /\ tree.nodes[tree.nodes[nd].left].size = 2

\* ---- C9 ---------------------------------------------------------------------
\* C9: between the iterations of the build loop the sampled indices are
\* conserved and singly owned: the index lists of the queued triples and of
\* the nodes already final as leaves are pairwise disjoint, hold no index
\* twice and together are the drawn sample; every node's size is the number
\* of indices it was created for; the children's sizes add up to the
\* parent's; the leaf sizes of a finished tree add up to the root's size.
Owned(t, q) ==
  [nd \in NodesOf(t) |->
     IF \E k \in 1..Len(q) : q[k].nd = nd
       THEN Range(q[CHOOSE k \in 1..Len(q) : q[k].nd = nd].idx)
       ELSE IF nd \in t.leaves THEN t.leafIdx[nd] ELSE {}]

Holders(t, q) == {q[k].nd : k \in 1..Len(q)} \cup t.leaves

Conserved(t, q) ==
  LET own == Owned(t, q)
      hs == Holders(t, q)
  IN /\ \A k \in 1..Len(q) : Injective(q[k].idx)
     /\ \A a, b \in 1..Len(q) : a # b => q[a].nd # q[b].nd
     /\ \A k \in 1..Len(q) : q[k].nd \notin t.leaves
     /\ \A a, b \in hs : a # b => own[a] \cap own[b] = {}
     /\ UNION {own[h] : h \in hs} = Range(t.subsample)
     /\ Injective(t.subsample)
     /\ \A k \in 1..Len(q) : t.nodes[q[k].nd].size = Len(q[k].idx)
     /\ \A h \in hs : t.nodes[h].size = Cardinality(own[h])
     /\ \A h \in hs : IsLeaf(t, h)
     /\ \A nd \in NodesOf(t) \ hs :
          /\ ~IsLeaf(t, nd)
          /\ t.nodes[t.nodes[nd].left].size + t.nodes[t.nodes[nd].right].size
               = t.nodes[nd].size

C9_IndicesConserved ==
  /\ pc = "build" => Conserved(tree, que)
  /\ \A t \in Finished :
       /\ Conserved(t, <<>>)
       /\ SumOver([nd \in NodesOf(t) |-> t.nodes[nd].size], t.leaves)
            = t.nodes[t.root].size

\* a two-level tree under construction: one leaf final, two triples queued
C9_Witness ==
  /\ pc = "build"
  /\ Len(tree.subsample) = 3
  /\ Len(tree.nodes) = 5
  /\ Len(que) = 2
  /\ Cardinality(tree.leaves) = 1

\* ---- C10 --------------------------------------------------------------------
\* C10: in a finished tree, the query on a sampled row ends at the leaf whose
\* index list held that row's index when construction ended, and returns that
\* leaf's depth and a size >= 1.
C10_QueryFindsOwnLeaf ==
  \A t \in Finished :
     \A i \in Range(t.subsample) :
        LET w == Descend(t.nodes, X[i + 1], t.root, 0)
            p == TreePredict(t, X[i + 1])
        IN /\ w.err = "none"
           /\ w.nd \in t.leaves
           /\ i \in t.leafIdx[w.nd]
           /\ p.depth = t.ndepth[w.nd]
           /\ p.size = t.nodes[w.nd].size
           /\ p.size >= 1

\* a finished tree with a leaf two levels down
C10_Witness ==
  /\ pc = "fitted"
  /\ \E k \in 1..Len(trees) :
       \E nd \in trees[k].leaves :
          /\ trees[k].ndepth[nd] = 2
          /\ trees[k].leafIdx[nd] # {}

====
